---- MODULE Spec2Model ----
(***************************************************************************)
(* A model of the veo-mcp-server tool handlers (src/src/index.ts):         *)
(* veo_get_operation_status and veo_wait_for_video, the status fetch they  *)
(* share (makeVeoRequest), the result formatting (formatOperationStatus)   *)
(* and the error mapping (handleApiError).                                 *)
(*                                                                         *)
(* Time is the value of Date.now() in milliseconds.  The handlers run on   *)
(* one JavaScript thread, so the code between two awaits is one atomic     *)
(* step; the clock moves while a handler is suspended in an await, and     *)
(* the step that resumes the handler says by how much.                     *)
(*                                                                         *)
(* An optional JavaScript value (a field that may be absent, undefined or  *)
(* null) is a sequence: <<>> when absent, <<v>> when present.  A string is *)
(* a sequence of one-character strings.                                    *)
(***************************************************************************)
EXTENDS Integers, Sequences, FiniteSets, TLC

\* ------------------------------------------------------------- bounds
\* Resolution of the modelled clock: every delay is a multiple of TickMs.
TickMs == 1000
\* Longest modelled latency of a status fetch that answers, in ticks.
MaxLatency == 3
\* Longest modelled lateness of a setTimeout callback, in ticks.
MaxLate == 1
\* Date.now() when the server starts serving, in ticks.
Epoch == 3
\* Poll intervals drawn above the schema's minimum.
PollSpan == 1
\* Timeouts drawn above the schema's minimum.
TimeoutSpan == 1
\* Longest operation_name drawn, in characters.
MaxNameLen == 3
\* Most poll intervals that fit in a timeout drawn.
MaxPolls == 7

\* -------------------------------------------------- program constants
MinPollInterval == 5
MaxPollInterval == 60
MinTimeout == 30
MaxTimeout == 600
MsPerSecond == 1000
RequestTimeoutMs == 60000

\* ------------------------------------------------------------ helpers
Absent == <<>>
Some(v) == <<v>>
IsPresent(o) == o # <<>>
Get(o) == o[1]

Max(a, b) == IF a >= b THEN a ELSE b

\* Math.round(x / 1000) for a non-negative integer x.
RoundSeconds(ms) == (2 * ms + MsPerSecond) \div (2 * MsPerSecond)

\* ceil(a / b) for positive b.
CeilDiv(a, b) == (a + b - 1) \div b

\* String.prototype.includes for a one-character needle.
Includes(s, ch) == \E i \in 1..Len(s) : s[i] = ch

\* The prefix without its separator.
OperationsPrefix_NoSlash == <<"o", "p", "e", "r", "a", "t", "i", "o", "n", "s">>

OperationsPrefix == <<"o", "p", "e", "r", "a", "t", "i", "o", "n", "s", "/">>

\* ---------------------------------------------- identifier normalization
\* veo_get_operation_status: operationPath
StatusOperationPath(operation_name) ==
    IF Includes(operation_name, "/")
    THEN operation_name
    ELSE OperationsPrefix \o operation_name

\* The wait handler prefixing every name.
WaitOperationPath_AlwaysPrefix(operation_name) == OperationsPrefix \o operation_name

\* veo_wait_for_video: operationPath
WaitOperationPath(operation_name) ==
    IF Includes(operation_name, "/")
    THEN operation_name
    ELSE OperationsPrefix \o operation_name

\* ------------------------------------------------------------ snapshots
\* OperationResponse as the remote service may answer: done absent, false or
\* true; error absent or present; the generated samples absent (at any level
\* of response.generateVideoResponse.generatedSamples) or a list of URIs.
DoneValues == {Absent, Some(FALSE), Some(TRUE)}
ErrorValues == {Absent, Some([code |-> 7, message |-> "denied"])}
SampleValues == {Absent, Some(<<>>), Some(<<"uri2", "uri1">>)}

SnapshotShapes == [done : DoneValues, error : ErrorValues, samples : SampleValues]

\* The snapshot the service returns for lookup key `key`.
Snapshot(key, shape) ==
    [name |-> key, done |-> shape.done, error |-> shape.error, samples |-> shape.samples]

\* JavaScript truthiness of operation.done and operation.error.
DoneTruthy(operation) == IsPresent(operation.done) /\ Get(operation.done)
ErrorTruthy(operation) == IsPresent(operation.error)

\* operation.response?.generateVideoResponse?.generatedSamples?.map(s => s.video.uri)
SampleUris(operation) == operation.samples

\* a ?? b
Nullish(a, b) == IF IsPresent(a) THEN a ELSE Some(b)

\* video_urls without the ?? [] default.
VideoUrls_NoDefault(operation) == SampleUris(operation)

\* video_urls: the sample URIs in order, or the empty list
VideoUrls(operation) == Nullish(SampleUris(operation), <<>>)

\* ------------------------------------------------------- classification
\* The classification testing done before error.
StatusOf_DoneFirst(operation) ==
    IF DoneTruthy(operation) THEN "completed"
    ELSE IF ErrorTruthy(operation) THEN "failed"
    ELSE "in_progress"

\* veo_get_operation_status: output.status
StatusOf(operation) ==
    IF ErrorTruthy(operation) THEN "failed"
    ELSE IF DoneTruthy(operation) THEN "completed"
    ELSE "in_progress"

\* veo_get_operation_status: output
StatusOutput(operation) ==
    [operation_name |-> operation.name,
     status |-> StatusOf(operation),
     done |-> Get(Nullish(operation.done, FALSE)),
     error |-> operation.error,
     video_urls |-> VideoUrls(operation)]

\* formatOperationStatus
formatOperationStatus(operation, format) ==
    LET status == IF DoneTruthy(operation) THEN "completed" ELSE "in_progress"
        hasError == ErrorTruthy(operation)
        hasVideo == IsPresent(operation.samples) /\ Len(Get(operation.samples)) # 0
    IN  IF format = "json"
        THEN [format |-> "json",
              operation_name |-> operation.name,
              status |-> IF hasError THEN "failed" ELSE status,
              done |-> Get(Nullish(operation.done, FALSE)),
              error |-> operation.error,
              video_urls |-> IF hasVideo THEN Some(Get(operation.samples)) ELSE Some(<<>>)]
        ELSE [format |-> "markdown",
              operation_name |-> operation.name,
              status |-> IF hasError THEN "failed"
                         ELSE IF DoneTruthy(operation) THEN "completed"
                         ELSE "in_progress",
              errorSection |-> IF hasError THEN operation.error ELSE Absent,
              videos |-> IF hasVideo THEN Get(operation.samples) ELSE <<>>,
              hint |-> ~DoneTruthy(operation) /\ ~hasError]

\* ------------------------------------------------------- error mapping
\* What a failed status fetch throws: an HTTP error status, or an axios error
\* code without a response.
HttpStatuses == {404, 503}
ErrorCodes == {"ECONNABORTED", "ENOTFOUND", "ECONNRESET"}
Failures ==
    [kind : {"http"}, status : HttpStatuses, code : {"ERR_BAD_RESPONSE"}]
        \cup [kind : {"network"}, status : {0}, code : ErrorCodes]

\* handleApiError: the message class returned for a thrown error
handleApiError(error) ==
    IF error.kind = "http"
    THEN CASE error.status = 400 -> "Error: Invalid request"
           [] error.status = 401 -> "Error: Invalid API key"
           [] error.status = 403 -> "Error: Access denied"
           [] error.status = 404 -> "Error: Resource not found"
           [] error.status = 429 -> "Error: Rate limit exceeded"
           [] error.status = 500 -> "Error: Server error"
           [] OTHER -> "Error: API request failed with status"
    ELSE IF error.code = "ECONNABORTED" THEN "Error: Request timed out"
    ELSE IF error.code = "ENOTFOUND" THEN "Error: Network error"
    ELSE "Error: Unexpected error occurred"

\* What getApiKey throws: an Error that is not an axios error.
GetApiKeyError ==
    [kind |-> "error", status |-> 0,
     code |-> "GEMINI_API_KEY environment variable is required"]

\* The catch block of a handler.
ErrorResult(error) ==
    [isError |-> TRUE,
     content |-> [format |-> "error", message |-> handleApiError(error)],
     structuredContent |-> Absent]

\* A handler's normal return value.
OkResult(text, output) ==
    [isError |-> FALSE, content |-> text, structuredContent |-> Some(output)]

\* ------------------------------------------------------ the wait handler
\* pollCount never incremented.
NextPollCount_Stuck(pollCount) == pollCount

\* pollCount++
NextPollCount(pollCount) == pollCount + 1

\* Elapsed time that forgets the start time.
Elapsed_FromEpoch(nowMs, startTime) == nowMs

\* Date.now() - startTime
Elapsed(nowMs, startTime) == nowMs - startTime

\* The deadline check before the terminal check.
AfterFetch_DeadlineFirst(operation, elapsed, timeoutMs) ==
    IF elapsed >= timeoutMs THEN "timeout"
    ELSE IF DoneTruthy(operation) \/ ErrorTruthy(operation) THEN "break"
    ELSE "sleep"

\* The deadline check with > for >=.
AfterFetch_StrictDeadline(operation, elapsed, timeoutMs) ==
    IF DoneTruthy(operation) \/ ErrorTruthy(operation) THEN "break"
    ELSE IF elapsed > timeoutMs THEN "timeout"
    ELSE "sleep"

\* The loop without a deadline check before the sleep.
AfterFetch_NoDeadlineBeforeSleep(operation, elapsed, timeoutMs) ==
    IF DoneTruthy(operation) \/ ErrorTruthy(operation) THEN "break"
    ELSE "sleep"

\* The loop body after a fetch has answered: break out with a terminal
\* snapshot, return the timeout outcome, or sleep and poll again.
AfterFetch(operation, elapsed, timeoutMs) ==
    IF DoneTruthy(operation) \/ ErrorTruthy(operation) THEN "break"
    ELSE IF elapsed >= timeoutMs THEN "timeout"
    ELSE "sleep"

\* The delay given in seconds where setTimeout takes milliseconds.
SleepDelay_Seconds(pollIntervalMs) == pollIntervalMs \div MsPerSecond

\* setTimeout(resolve, pollIntervalMs): the delay asked for
SleepDelay(pollIntervalMs) == pollIntervalMs

\* The timeout branch: output
TimeoutOutput(operation, elapsed, pollCount, timeout_seconds) ==
    [operation_name |-> operation.name,
     status |-> "timeout",
     done |-> FALSE,
     elapsed_seconds |-> RoundSeconds(elapsed),
     poll_count |-> pollCount,
     message |-> <<"Timed out after", timeout_seconds>>]

\* The timeout branch: text content
TimeoutText(output, format, timeout_seconds) ==
    IF format = "json"
    THEN [format |-> "json",
          operation_name |-> output.operation_name,
          status |-> output.status,
          done |-> output.done,
          elapsed_seconds |-> output.elapsed_seconds,
          poll_count |-> output.poll_count,
          message |-> output.message]
    ELSE [format |-> "markdown",
          operation_name |-> output.operation_name,
          status |-> <<"Timed out after", timeout_seconds>>,
          polls |-> output.poll_count]

\* After the loop: output
WaitOutput(operation, elapsed, pollCount) ==
    [operation_name |-> operation.name,
     status |-> IF ErrorTruthy(operation) THEN "failed" ELSE "completed",
     done |-> TRUE,
     elapsed_seconds |-> RoundSeconds(elapsed),
     poll_count |-> pollCount,
     error |-> operation.error,
     video_urls |-> VideoUrls(operation)]

\* -------------------------------------------------------- input schemas
Formats == {"markdown", "json"}

\* GetOperationStatusInputSchema
ValidStatusInput(a) ==
    /\ Len(a.operation_name) >= 1
    /\ a.response_format \in Formats

\* The wait schema without .max() on the two numbers.
ValidWaitInput_NoMax(a) ==
    /\ Len(a.operation_name) >= 1
    /\ a.poll_interval_seconds >= MinPollInterval
    /\ a.timeout_seconds >= MinTimeout
    /\ a.response_format \in Formats

\* The wait schema without .min() on the timeout.
ValidWaitInput_NoMinTimeout(a) ==
    /\ Len(a.operation_name) >= 1
    /\ a.poll_interval_seconds >= MinPollInterval
    /\ a.poll_interval_seconds <= MaxPollInterval
    /\ a.timeout_seconds <= MaxTimeout
    /\ a.response_format \in Formats

\* WaitForVideoInputSchema
ValidWaitInput(a) ==
    /\ Len(a.operation_name) >= 1
    /\ a.poll_interval_seconds >= MinPollInterval
    /\ a.poll_interval_seconds <= MaxPollInterval
    /\ a.timeout_seconds >= MinTimeout
    /\ a.timeout_seconds <= MaxTimeout
    /\ a.response_format \in Formats

\* ----------------------------------------------------- the model table
\* VEO_MODELS: id, durations, resolutions, supportsResolution
VEO_MODELS ==
    <<[id |-> "veo-3.1-generate-preview", status |-> "preview",
       resolutions |-> <<"720p", "1080p">>, durations |-> <<4, 6, 8>>,
       supportsResolution |-> TRUE],
      [id |-> "veo-3.1-fast-generate-preview", status |-> "preview",
       resolutions |-> <<"720p", "1080p">>, durations |-> <<4, 6, 8>>,
       supportsResolution |-> TRUE],
      [id |-> "veo-3.0-generate-001", status |-> "stable",
       resolutions |-> <<"720p", "1080p">>, durations |-> <<4, 6, 8>>,
       supportsResolution |-> TRUE],
      [id |-> "veo-3.0-fast-generate-001", status |-> "stable",
       resolutions |-> <<"720p", "1080p">>, durations |-> <<4, 6, 8>>,
       supportsResolution |-> TRUE],
      [id |-> "veo-2.0-generate-001", status |-> "stable",
       resolutions |-> <<"720p">>, durations |-> <<5, 6, 8>>,
       supportsResolution |-> FALSE]>>

\* ModelIdSchema
ModelIds == {VEO_MODELS[i].id : i \in DOMAIN VEO_MODELS}

\* The entry of VEO_MODELS with the given id.
ModelEntry(id) == VEO_MODELS[CHOOSE i \in DOMAIN VEO_MODELS : VEO_MODELS[i].id = id]

\* enum AspectRatio, enum Resolution
AspectRatios == {"16:9", "9:16"}
Resolutions == {"720p", "1080p"}

\* z.union([z.literal(4), z.literal(5), z.literal(6), z.literal(8)])
DurationLiterals == {4, 5, 6, 8}

\* .default(4) of duration_seconds, whatever the model
DefaultDuration == 4

\* A field with a default: the value given, or the default.
OrDefault(field, default) == IF IsPresent(field) THEN Get(field) ELSE default

\* GenerateVideoInputSchema and GenerateVideoFromImageInputSchema: what the
\* fields accept (an absent field with a default is accepted).
ValidGenerateInput(a) ==
    /\ Len(a.prompt) >= 1
    /\ IsPresent(a.model) => Get(a.model) \in ModelIds
    /\ IsPresent(a.aspect_ratio) => Get(a.aspect_ratio) \in AspectRatios
    /\ IsPresent(a.duration_seconds) => Get(a.duration_seconds) \in DurationLiterals
    /\ IsPresent(a.resolution) => Get(a.resolution) \in Resolutions
    /\ a.response_format \in Formats
    /\ a.tool = "veo_generate_video_from_image" => Len(a.image_base64) >= 1

\* The parsed params of a generation tool: defaults filled in.
GenerateParams(a) ==
    LET model == OrDefault(a.model, "veo-3.0-generate-001")
    IN  [prompt |-> a.prompt,
         model |-> model,
         aspect_ratio |-> OrDefault(a.aspect_ratio, "16:9"),
         duration_seconds |-> OrDefault(a.duration_seconds, DefaultDuration),
         resolution |-> a.resolution,
         response_format |-> a.response_format]

\* image_base64 with its data-URI prefix stripped, when it has one.
StripDataUri(image) ==
    IF Len(image) >= 2 /\ image[1] = "data:image/png;base64," THEN Tail(image) ELSE image

\* effectiveResolution
EffectiveResolution(params) ==
    IF params.model = "veo-2.0-generate-001" THEN Absent
    ELSE Some(OrDefault(params.resolution, "720p"))

\* The endpoint and the body of the submit request.
GenerateRequest(a) ==
    LET params == GenerateParams(a)
    IN  [endpoint |-> <<"models/", params.model, ":predictLongRunning">>,
         image |-> IF a.tool = "veo_generate_video_from_image"
                   THEN Some(StripDataUri(a.image_base64)) ELSE Absent,
         parameters |-> [aspectRatio |-> params.aspect_ratio,
                         durationSeconds |-> params.duration_seconds,
                         resolution |-> EffectiveResolution(params)]]

\* After the submit request answered: output
GenerateOutput(params, operation_name) ==
    [operation_name |-> operation_name, model |-> params.model, status |-> "submitted"]

\* The text of a generation result, by format.
GenerateText(params, output) ==
    IF params.response_format = "json"
    THEN [format |-> "json", operation_name |-> output.operation_name,
          model |-> output.model, status |-> output.status]
    ELSE [format |-> "markdown", operation_name |-> output.operation_name,
          model |-> output.model, status |-> "Submitted",
          duration |-> params.duration_seconds,
          aspect_ratio |-> params.aspect_ratio,
          resolution |-> EffectiveResolution(params)]

\* veo_list_models: output
ListModelsOutput ==
    [models |-> [i \in DOMAIN VEO_MODELS |->
                    [id |-> VEO_MODELS[i].id, status |-> VEO_MODELS[i].status,
                     resolutions |-> VEO_MODELS[i].resolutions,
                     durations |-> VEO_MODELS[i].durations]]]

\* The text of veo_list_models, by format.
ListModelsText(format) ==
    [format |-> format, models |-> ListModelsOutput.models]

\* ListModelsInputSchema
ValidListInput(a) == a.response_format \in Formats

GenerateTools == {"veo_generate_video", "veo_generate_video_from_image"}

ValidInput(a) ==
    IF a.tool = "veo_wait_for_video" THEN ValidWaitInput(a)
    ELSE IF a.tool = "veo_get_operation_status" THEN ValidStatusInput(a)
    ELSE IF a.tool \in GenerateTools THEN ValidGenerateInput(a)
    ELSE ValidListInput(a)

\* The result of an invocation the input schema rejects.
ValidationResult ==
    [isError |-> TRUE,
     content |-> [format |-> "error", message |-> "Input validation error"],
     structuredContent |-> Absent]

\* ----------------------------------------------------------------- state
Calls == {"c1", "c2"}

VARIABLES
    now,            \* Date.now(), in milliseconds
    args,           \* per call: the tool invocation the client sends
    pc,             \* per call: "idle", "fetching", "sleeping" or "returned"
    operationPath,  \* per call: the handler's operationPath
    startTime,      \* per call: the wait handler's startTime
    pollCount,      \* per call: the wait handler's pollCount
    operation,      \* per call: the handler's operation (absent until assigned)
    result,         \* per call: what the handler returned (absent until it returns)
    fetchKey,       \* per call: the endpoint of the request in flight or last issued
    fetchStart,     \* per call: when the last status fetch was issued
    sleepStart,     \* per call: when the current setTimeout was armed
    fetchCount,     \* per call: how many status fetches were issued
    inFlight,       \* per call: how many status fetches await their answer
    fetchFailed,    \* per call: how many requests to the remote service failed
    endTime,        \* per call: when the handler returned
    server,         \* the process: "starting", "running" (connected) or "exited"
    apiKey,         \* whether process.env.GEMINI_API_KEY holds a non-empty string
    exitCode,       \* the code given to process.exit (absent while the process lives)
    submitted       \* per call: the submit request sent to the remote service

vars == <<now, args, pc, operationPath, startTime, pollCount, operation, result,
          fetchKey, fetchStart, sleepStart, fetchCount, inFlight, fetchFailed, endTime,
          server, apiKey, exitCode, submitted>>

\* The variables of the process and of the generation tools.
processVars == <<server, apiKey, exitCode, submitted>>

\* The variables of a status or wait handler.
pollVars == <<operationPath, startTime, pollCount, operation, fetchKey, fetchStart,
              sleepStart, fetchCount, inFlight, fetchFailed>>

NoRequest == [tool |-> "none"]

StatusRequest(name, format) ==
    [tool |-> "veo_get_operation_status", operation_name |-> name, response_format |-> format]

WaitRequest(name, poll, timeout, format) ==
    [tool |-> "veo_wait_for_video", operation_name |-> name,
     poll_interval_seconds |-> poll, timeout_seconds |-> timeout, response_format |-> format]

\* timeoutMs and pollIntervalMs of the wait handler
timeoutMs(c) == args[c].timeout_seconds * MsPerSecond
pollIntervalMs(c) == args[c].poll_interval_seconds * MsPerSecond

\* Whether two client calls are in progress in this run.
Concurrent == \A c \in Calls : args[c] # NoRequest

\* Latencies of a request, in milliseconds: axios gives up after 60 s. With
\* two calls in progress the answers are drawn from a smaller range.
Latencies ==
    {d * TickMs : d \in 0..(IF Concurrent THEN 1 ELSE MaxLatency)} \cap 0..RequestTimeoutMs
Latenesses == {d * TickMs : d \in 0..MaxLate}

\* The latency of a failing fetch: a request timeout takes the whole 60 s.
FailureLatencies(error) ==
    IF error.code = "ECONNABORTED" THEN {RequestTimeoutMs} ELSE Latencies

\* What the remote service answers and how its requests fail; with two calls
\* in progress: a pending, a completed and a failed operation, and one
\* network error.
AnswerShapes ==
    IF Concurrent
    THEN {[done |-> Some(FALSE), error |-> Absent, samples |-> Absent],
          [done |-> Some(TRUE), error |-> Absent, samples |-> Some(<<"uri2", "uri1">>)],
          [done |-> Absent, error |-> Some([code |-> 7, message |-> "denied"]),
           samples |-> Absent]}
    ELSE SnapshotShapes
AnswerFailures ==
    IF Concurrent THEN {f \in Failures : f.code = "ENOTFOUND"} ELSE Failures

\* ------------------------------------------------------- inputs and Init
Alphabet == {"a", "/"}
AllNames == UNION {[1..n -> Alphabet] : n \in 0..MaxNameLen}
FewNames == {<<"a">>, <<"o", "/", "a">>}

PollChoices ==
    (MinPollInterval - 1)..(MinPollInterval + PollSpan) \cup {MaxPollInterval, MaxPollInterval + 1}
TimeoutChoices ==
    (MinTimeout - 1)..(MinTimeout + TimeoutSpan) \cup {MaxTimeout, MaxTimeout + 1}

\* The timings drawn: those the schema rejects, and those whose wait ends
\* within MaxPolls + 1 polls.
TimingChoices ==
    {pt \in PollChoices \X TimeoutChoices :
        \/ pt[1] < MinPollInterval \/ pt[1] > MaxPollInterval
        \/ pt[2] < MinTimeout \/ pt[2] > MaxTimeout
        \/ CeilDiv(pt[2], pt[1]) <= MaxPolls}

\* The waits of the specification's scenarios: poll 10 with timeout 15, the
\* same with the smallest timeout the schema accepts, and one without a name.
ScenarioRequests ==
    {WaitRequest(<<"a">>, 10, 15, "json"),
     WaitRequest(<<"a">>, 10, MinTimeout, "json"),
     WaitRequest(<<>>, 10, MinTimeout, "json")}

\* Requests that vary the timing of a wait, and requests that vary the name
\* and the format.
TimingRequests ==
    {WaitRequest(<<"a">>, pt[1], pt[2], "json") : pt \in TimingChoices}
    \cup ScenarioRequests
    \cup {WaitRequest(n, MaxPollInterval, MinTimeout, f) : n \in FewNames, f \in Formats}
    \cup {StatusRequest(n, f) : n \in FewNames, f \in Formats}

\* Requests that vary the operation name.
NameRequests ==
    {WaitRequest(n, MaxPollInterval, MinTimeout, "json") : n \in AllNames}
    \cup {StatusRequest(n, "json") : n \in AllNames}

\* The handlers' state before any invocation is dispatched.
InitHandlers ==
    /\ pc = [c \in Calls |-> "idle"]
    /\ operationPath = [c \in Calls |-> <<>>]
    /\ startTime = [c \in Calls |-> 0]
    /\ pollCount = [c \in Calls |-> 0]
    /\ operation = [c \in Calls |-> Absent]
    /\ result = [c \in Calls |-> Absent]
    /\ fetchKey = [c \in Calls |-> <<>>]
    /\ fetchStart = [c \in Calls |-> 0]
    /\ sleepStart = [c \in Calls |-> 0]
    /\ fetchCount = [c \in Calls |-> 0]
    /\ inFlight = [c \in Calls |-> 0]
    /\ fetchFailed = [c \in Calls |-> 0]
    /\ endTime = [c \in Calls |-> 0]
    /\ submitted = [c \in Calls |-> Absent]
    /\ exitCode = Absent

\* One client call, the server connected.
InitCalls(requests) ==
    /\ now = Epoch * TickMs
    /\ args \in {a \in [Calls -> requests \cup {NoRequest}] :
                    a["c1"] # NoRequest /\ a["c2"] = NoRequest}
    /\ server = "running"
    /\ apiKey = TRUE
    /\ InitHandlers

Init == InitCalls(TimingRequests)
InitNames == InitCalls(NameRequests)

\* The calls followed to their end under the runtime's scheduling.
LiveRequests ==
    ScenarioRequests
    \cup {WaitRequest(<<"a">>, MaxPollInterval, MinTimeout, f) : f \in Formats}
    \cup {StatusRequest(<<"a">>, f) : f \in Formats}
InitLive == InitCalls(LiveRequests)

GenerateRequestOf(tool, image, model, duration, resolution, aspect, format) ==
    IF tool = "veo_generate_video"
    THEN [tool |-> tool, prompt |-> <<"p">>, model |-> model,
          duration_seconds |-> duration, resolution |-> resolution,
          aspect_ratio |-> aspect, response_format |-> format]
    ELSE [tool |-> tool, prompt |-> <<"p">>, image_base64 |-> image, model |-> model,
          duration_seconds |-> duration, resolution |-> resolution,
          aspect_ratio |-> aspect, response_format |-> format]

ListModelsRequest(format) == [tool |-> "veo_list_models", response_format |-> format]

\* The names the remote service gives to a submitted operation.
OperationNames == {<<"o", "/", "a">>}

\* Inputs of the generation tools: each field absent, valid, or invalid.
ModelChoices ==
    {Absent, Some("veo-3.1-generate-preview"), Some("veo-2.0-generate-001"), Some("veo-1")}
DurationChoices == {Absent} \cup {Some(d) : d \in DurationLiterals \cup {7}}
ResolutionChoices == {Absent} \cup {Some(r) : r \in Resolutions}
ImageChoices == {<<>>, <<"QUJD">>, <<"data:image/png;base64,", "QUJD">>}

GenerateRequests ==
    {GenerateRequestOf("veo_generate_video", <<>>, m, d, r, Absent, f) :
        m \in ModelChoices, d \in DurationChoices, r \in ResolutionChoices, f \in Formats}
    \cup {GenerateRequestOf("veo_generate_video_from_image", i, m, d, r, Some("9:16"), "json") :
        i \in ImageChoices, m \in ModelChoices, d \in DurationChoices, r \in ResolutionChoices}

\* The invocations a client sends to the whole server.
ServerRequests ==
    GenerateRequests
    \cup {ListModelsRequest(f) : f \in Formats \cup {"xml"}}
    \cup LiveRequests

\* The process as it starts: the key set or not, no transport yet, and the
\* invocation the client will send once connected.
InitServer ==
    /\ now = Epoch * TickMs
    /\ args \in {a \in [Calls -> ServerRequests \cup {NoRequest}] :
                    a["c1"] # NoRequest /\ a["c2"] = NoRequest}
    /\ server = "starting"
    /\ apiKey \in BOOLEAN
    /\ InitHandlers

\* Two client calls in progress at once, on the same operation or on two.
ConcurrentRequests ==
    {WaitRequest(n, MaxPollInterval, MinTimeout, "json") : n \in FewNames \cup {<<>>}}
    \cup {StatusRequest(<<"a">>, "json")}

InitConcurrent ==
    /\ now = Epoch * TickMs
    /\ args \in [Calls -> ConcurrentRequests]
    /\ server = "running"
    /\ apiKey = TRUE
    /\ InitHandlers

\* --------------------------------------------------------------- actions
\* makeVeoRequest(operationPath, "GET"): the request leaves and the handler
\* awaits the answer.
IssueFetch(c, key, at) ==
    /\ fetchKey' = [fetchKey EXCEPT ![c] = key]
    /\ fetchStart' = [fetchStart EXCEPT ![c] = at]
    /\ fetchCount' = [fetchCount EXCEPT ![c] = @ + 1]
    /\ inFlight' = [inFlight EXCEPT ![c] = @ + 1]
    /\ pc' = [pc EXCEPT ![c] = "fetching"]

\* makeVeoRequest, called for a status fetch: getApiKey() throws when the key
\* is missing and the handler's catch block returns; otherwise the request
\* leaves.
makeVeoRequest(c, key, at) ==
    IF apiKey
    THEN /\ IssueFetch(c, key, at)
         /\ UNCHANGED <<result, endTime>>
    ELSE /\ result' = [result EXCEPT ![c] = Some(ErrorResult(GetApiKeyError))]
         /\ endTime' = [endTime EXCEPT ![c] = at]
         /\ pc' = [pc EXCEPT ![c] = "returned"]
         /\ UNCHANGED <<fetchKey, fetchStart, fetchCount, inFlight>>

\* The handler returns `r` at time `at`.
Return(c, r, at) ==
    /\ result' = [result EXCEPT ![c] = Some(r)]
    /\ endTime' = [endTime EXCEPT ![c] = at]
    /\ pc' = [pc EXCEPT ![c] = "returned"]

\* An invocation the input schema rejects never reaches its handler.
Reject(c) ==
    /\ pc[c] = "idle"
    /\ server = "running"
    /\ args[c] # NoRequest
    /\ ~ValidInput(args[c])
    /\ Return(c, ValidationResult, now)
    /\ UNCHANGED <<now, args, operationPath, startTime, pollCount, operation,
                   fetchKey, fetchStart, sleepStart, fetchCount, inFlight, fetchFailed>>
    /\ UNCHANGED processVars

\* veo_get_operation_status: from entry to the await of the status fetch.
StatusInvoke(c) ==
    /\ pc[c] = "idle"
    /\ server = "running"
    /\ args[c].tool = "veo_get_operation_status"
    /\ ValidInput(args[c])
    /\ operationPath' = [operationPath EXCEPT ![c] = StatusOperationPath(args[c].operation_name)]
    /\ makeVeoRequest(c, operationPath'[c], now)
    /\ UNCHANGED <<now, args, startTime, pollCount, operation, sleepStart, fetchFailed>>
    /\ UNCHANGED processVars

\* veo_get_operation_status: the fetch answers and the handler returns.
StatusFetchReturn(c, shape, latency) ==
    /\ pc[c] = "fetching"
    /\ args[c].tool = "veo_get_operation_status"
    /\ now' = now + latency
    /\ inFlight' = [inFlight EXCEPT ![c] = @ - 1]
    /\ LET op == Snapshot(fetchKey[c], shape)
       IN  /\ operation' = [operation EXCEPT ![c] = Some(op)]
           /\ Return(c, OkResult(formatOperationStatus(op, args[c].response_format),
                                 StatusOutput(op)), now')
    /\ UNCHANGED <<args, operationPath, startTime, pollCount, fetchKey, fetchStart,
                   sleepStart, fetchCount, fetchFailed>>
    /\ UNCHANGED processVars

\* veo_get_operation_status: the fetch throws and the catch block returns.
StatusFetchFail(c, error, latency) ==
    /\ pc[c] = "fetching"
    /\ args[c].tool = "veo_get_operation_status"
    /\ now' = now + latency
    /\ inFlight' = [inFlight EXCEPT ![c] = @ - 1]
    /\ fetchFailed' = [fetchFailed EXCEPT ![c] = @ + 1]
    /\ Return(c, ErrorResult(error), now')
    /\ UNCHANGED <<args, operationPath, startTime, pollCount, operation, fetchKey,
                   fetchStart, sleepStart, fetchCount>>
    /\ UNCHANGED processVars

\* veo_wait_for_video: from entry to the await of the first status fetch.
WaitInvoke(c) ==
    /\ pc[c] = "idle"
    /\ server = "running"
    /\ args[c].tool = "veo_wait_for_video"
    /\ ValidInput(args[c])
    /\ operationPath' = [operationPath EXCEPT ![c] = WaitOperationPath(args[c].operation_name)]
    /\ startTime' = [startTime EXCEPT ![c] = now]
    /\ pollCount' = [pollCount EXCEPT ![c] = NextPollCount(0)]
    /\ makeVeoRequest(c, operationPath'[c], now)
    /\ UNCHANGED <<now, args, operation, sleepStart, fetchFailed>>
    /\ UNCHANGED processVars

\* veo_wait_for_video: a status fetch answers; the handler returns the terminal
\* outcome or the timeout outcome, or arms the timer and awaits it.
WaitFetchReturn(c, shape, latency) ==
    /\ pc[c] = "fetching"
    /\ args[c].tool = "veo_wait_for_video"
    /\ now' = now + latency
    /\ inFlight' = [inFlight EXCEPT ![c] = @ - 1]
    /\ LET op == Snapshot(fetchKey[c], shape)
           elapsed == Elapsed(now', startTime[c])
           next == AfterFetch(op, elapsed, timeoutMs(c))
           timeoutOut == TimeoutOutput(op, elapsed, pollCount[c], args[c].timeout_seconds)
       IN  /\ operation' = [operation EXCEPT ![c] = Some(op)]
           /\ CASE next = "break" ->
                     /\ Return(c, OkResult(formatOperationStatus(op, args[c].response_format),
                                           WaitOutput(op, elapsed, pollCount[c])), now')
                     /\ UNCHANGED sleepStart
                [] next = "timeout" ->
                     /\ Return(c, OkResult(TimeoutText(timeoutOut, args[c].response_format,
                                                       args[c].timeout_seconds),
                                           timeoutOut), now')
                     /\ UNCHANGED sleepStart
                [] OTHER ->
                     /\ pc' = [pc EXCEPT ![c] = "sleeping"]
                     /\ sleepStart' = [sleepStart EXCEPT ![c] = now']
                     /\ UNCHANGED <<result, endTime>>
    /\ UNCHANGED <<args, operationPath, startTime, pollCount, fetchKey, fetchStart,
                   fetchCount, fetchFailed>>
    /\ UNCHANGED processVars

\* The wait handler catching the error inside the loop and polling again.
WaitFetchFail_Retry(c, error, latency) ==
    /\ pc[c] = "fetching"
    /\ args[c].tool = "veo_wait_for_video"
    /\ now' = now + latency
    /\ inFlight' = [inFlight EXCEPT ![c] = @ - 1]
    /\ fetchFailed' = [fetchFailed EXCEPT ![c] = @ + 1]
    /\ pc' = [pc EXCEPT ![c] = "sleeping"]
    /\ sleepStart' = [sleepStart EXCEPT ![c] = now']
    /\ UNCHANGED <<args, operationPath, startTime, pollCount, operation, result, fetchKey,
                   fetchStart, fetchCount, endTime>>
    /\ UNCHANGED processVars

\* veo_wait_for_video: a status fetch throws and the catch block returns.
WaitFetchFail(c, error, latency) ==
    /\ pc[c] = "fetching"
    /\ args[c].tool = "veo_wait_for_video"
    /\ now' = now + latency
    /\ inFlight' = [inFlight EXCEPT ![c] = @ - 1]
    /\ fetchFailed' = [fetchFailed EXCEPT ![c] = @ + 1]
    /\ Return(c, ErrorResult(error), now')
    /\ UNCHANGED <<args, operationPath, startTime, pollCount, operation, fetchKey,
                   fetchStart, sleepStart, fetchCount>>
    /\ UNCHANGED processVars

\* The promise of the sleep never resolved: the timer's callback does nothing.
WaitSleepEnd_NeverResolves(c, late) ==
    /\ pc[c] = "sleeping"
    /\ FALSE
    /\ UNCHANGED vars

\* pollCount held in a variable of the module, shared by every call.
WaitSleepEnd_SharedCount(c, late) ==
    /\ pc[c] = "sleeping"
    /\ now' = Max(now, sleepStart[c] + SleepDelay(pollIntervalMs(c))) + late
    /\ pollCount' = [d \in Calls |-> NextPollCount(pollCount[d])]
    /\ makeVeoRequest(c, operationPath[c], now')
    /\ UNCHANGED <<args, operationPath, startTime, operation, sleepStart, fetchFailed>>
    /\ UNCHANGED processVars

\* veo_wait_for_video: the timer fires, no earlier than the delay asked for;
\* the loop starts over and issues the next status fetch.
WaitSleepEnd(c, late) ==
    /\ pc[c] = "sleeping"
    /\ now' = Max(now, sleepStart[c] + SleepDelay(pollIntervalMs(c))) + late
    /\ pollCount' = [pollCount EXCEPT ![c] = NextPollCount(@)]
    /\ makeVeoRequest(c, operationPath[c], now')
    /\ UNCHANGED <<args, operationPath, startTime, operation, sleepStart, fetchFailed>>
    /\ UNCHANGED processVars

\* main: the key is checked before the transport is connected; without it
\* the process exits with code 1.
MainStart_NoCheck ==
    /\ server = "starting"
    /\ server' = "running"
    /\ UNCHANGED <<now, args, pc, result, endTime, pollVars, apiKey, exitCode, submitted>>

MainStart ==
    /\ server = "starting"
    /\ IF apiKey
       THEN server' = "running" /\ UNCHANGED exitCode
       ELSE server' = "exited" /\ exitCode' = Some(1)
    /\ UNCHANGED <<now, args, pc, result, endTime, pollVars, apiKey, submitted>>

\* The environment variable removed while the server runs: getApiKey reads
\* process.env on every call.
UnsetApiKey ==
    /\ server = "running"
    /\ apiKey
    /\ apiKey' = FALSE
    /\ UNCHANGED <<now, args, pc, result, endTime, pollVars, server, exitCode, submitted>>

\* A generation handler that lets the error of makeVeoRequest escape.
GenerateInvoke_Uncaught(c) ==
    /\ pc[c] = "idle"
    /\ server = "running"
    /\ args[c].tool \in GenerateTools
    /\ ValidInput(args[c])
    /\ IF apiKey
       THEN /\ submitted' = [submitted EXCEPT ![c] = Some(GenerateRequest(args[c]))]
            /\ pc' = [pc EXCEPT ![c] = "submitting"]
       ELSE /\ pc' = [pc EXCEPT ![c] = "thrown"]
            /\ UNCHANGED submitted
    /\ UNCHANGED <<now, args, result, endTime, pollVars, server, apiKey, exitCode>>

\* veo_generate_video and veo_generate_video_from_image: from entry to the
\* await of the submit request; getApiKey() throwing is caught.
GenerateInvoke(c) ==
    /\ pc[c] = "idle"
    /\ server = "running"
    /\ args[c].tool \in GenerateTools
    /\ ValidInput(args[c])
    /\ IF apiKey
       THEN /\ submitted' = [submitted EXCEPT ![c] = Some(GenerateRequest(args[c]))]
            /\ pc' = [pc EXCEPT ![c] = "submitting"]
            /\ UNCHANGED <<result, endTime>>
       ELSE /\ Return(c, ErrorResult(GetApiKeyError), now)
            /\ UNCHANGED submitted
    /\ UNCHANGED <<now, args, pollVars, server, apiKey, exitCode>>

\* A generation tool: the submit request answers and the handler returns.
GenerateReturn(c, name, latency) ==
    /\ pc[c] = "submitting"
    /\ now' = now + latency
    /\ LET params == GenerateParams(args[c])
           output == GenerateOutput(params, name)
       IN  Return(c, OkResult(GenerateText(params, output), output), now')
    /\ UNCHANGED <<args, pollVars, processVars>>

\* A generation tool: the submit request throws and the catch block returns.
GenerateFail(c, error, latency) ==
    /\ pc[c] = "submitting"
    /\ now' = now + latency
    /\ fetchFailed' = [fetchFailed EXCEPT ![c] = @ + 1]
    /\ Return(c, ErrorResult(error), now')
    /\ UNCHANGED <<args, operationPath, startTime, pollCount, operation, fetchKey,
                   fetchStart, sleepStart, fetchCount, inFlight, processVars>>

\* veo_list_models: the handler returns the model table.
ListModels(c) ==
    /\ pc[c] = "idle"
    /\ server = "running"
    /\ args[c].tool = "veo_list_models"
    /\ ValidInput(args[c])
    /\ Return(c, OkResult(ListModelsText(args[c].response_format), ListModelsOutput), now)
    /\ UNCHANGED <<now, args, pollVars, processVars>>

Next ==
    \E c \in Calls :
        \/ Reject(c)
        \/ StatusInvoke(c)
        \/ \E shape \in AnswerShapes, latency \in Latencies :
               StatusFetchReturn(c, shape, latency)
        \/ \E error \in AnswerFailures : \E latency \in FailureLatencies(error) :
               StatusFetchFail(c, error, latency)
        \/ WaitInvoke(c)
        \/ \E shape \in AnswerShapes, latency \in Latencies :
               WaitFetchReturn(c, shape, latency)
        \/ \E error \in AnswerFailures : \E latency \in FailureLatencies(error) :
               WaitFetchFail(c, error, latency)
        \/ \E late \in Latenesses : WaitSleepEnd(c, late)

Spec == Init /\ [][Next]_vars

\* The whole server: startup, the five tools, and the environment.
NextServer ==
    \/ MainStart
    \/ UnsetApiKey
    \/ \E c \in Calls :
        \/ Reject(c)
        \/ GenerateInvoke(c)
        \/ \E name \in OperationNames, latency \in Latencies :
               GenerateReturn(c, name, latency)
        \/ \E error \in AnswerFailures : \E latency \in FailureLatencies(error) :
               GenerateFail(c, error, latency)
        \/ ListModels(c)
        \/ StatusInvoke(c)
        \/ \E shape \in AnswerShapes, latency \in Latencies :
               StatusFetchReturn(c, shape, latency)
        \/ \E error \in AnswerFailures : \E latency \in FailureLatencies(error) :
               StatusFetchFail(c, error, latency)
        \/ WaitInvoke(c)
        \/ \E shape \in AnswerShapes, latency \in Latencies :
               WaitFetchReturn(c, shape, latency)
        \/ \E error \in AnswerFailures : \E latency \in FailureLatencies(error) :
               WaitFetchFail(c, error, latency)
        \/ \E late \in Latenesses : WaitSleepEnd(c, late)

SpecServer == InitServer /\ [][NextServer]_vars

\* The runtime's scheduling: every request to the remote service is answered
\* or fails (axios gives up after 60 s), every timer fires, and an invocation
\* received is dispatched.
Fairness ==
    \A c \in Calls :
        /\ WF_vars(Reject(c) \/ StatusInvoke(c) \/ WaitInvoke(c))
        /\ WF_vars(\E shape \in AnswerShapes, latency \in Latencies :
                      StatusFetchReturn(c, shape, latency) \/ WaitFetchReturn(c, shape, latency))
        /\ WF_vars(\E late \in Latenesses : WaitSleepEnd(c, late))

SpecLive == InitLive /\ [][Next]_vars /\ Fairness
SpecNames == InitNames /\ [][Next]_vars
SpecConcurrent == InitConcurrent /\ [][Next]_vars

\* ---------------------------------------------------- reading a state
IsWait(c) == args[c].tool = "veo_wait_for_video"
IsStatus(c) == args[c].tool = "veo_get_operation_status"
Returned(c) == pc[c] = "returned"

\* The structured outcome of a call that returned one.
HasOutput(c) == Returned(c) /\ IsPresent(Get(result[c]).structuredContent)
Output(c) == Get(Get(result[c]).structuredContent)
Text(c) == Get(result[c]).content

\* What the remote service says of a snapshot, read off the snapshot itself.
SnapshotDone(op) == op.done = Some(TRUE)
SnapshotError(op) == op.error # Absent
SnapshotTerminal(op) == SnapshotDone(op) \/ SnapshotError(op)

\* A wait that has returned after fetches that all answered.
WaitAnswered(c) ==
    /\ IsWait(c) /\ Returned(c) /\ fetchFailed[c] = 0 /\ IsPresent(operation[c])

\* Wall-clock time from the start of the wait to its return, in milliseconds.
WallElapsed(c) == endTime[c] - startTime[c]

\* ------------------------------------------------------------------ C1
\* A wait whose snapshots are never terminal, with t >= p, returned.
NeverCompleted(c) ==
    /\ WaitAnswered(c)
    /\ ~SnapshotTerminal(Get(operation[c]))
    /\ args[c].timeout_seconds >= args[c].poll_interval_seconds

PollsExpected(c) == CeilDiv(args[c].timeout_seconds, args[c].poll_interval_seconds)

TimedOutAfterDeadline(c) ==
    /\ HasOutput(c)
    /\ Output(c).status = "timeout"
    /\ WallElapsed(c) >= args[c].timeout_seconds * 1000
    /\ Output(c).elapsed_seconds >= args[c].timeout_seconds

\* C1 as stated: a wait on an operation that never completes returns the
\* timeout outcome with elapsed >= t and ceil(t/p) - 1 <= poll_count <= ceil(t/p) + 1.
C1_PollCountWithinOneOfCeil ==
    \A c \in Calls :
        NeverCompleted(c) =>
            /\ TimedOutAfterDeadline(c)
            /\ Output(c).poll_count >= PollsExpected(c) - 1
            /\ Output(c).poll_count <= PollsExpected(c) + 1

\* C1 as amended: a wait on an operation that never completes returns the
\* timeout outcome with elapsed >= t and 1 <= poll_count <= ceil(t/p) + 1; the
\* time the fetches take lowers the count below ceil(t/p) - 1.
C1_PollCountAtMostCeilPlusOne ==
    \A c \in Calls :
        NeverCompleted(c) =>
            /\ TimedOutAfterDeadline(c)
            /\ Output(c).poll_count >= 1
            /\ Output(c).poll_count <= PollsExpected(c) + 1

\* A timeout reached with the largest poll count the bound allows.
C1_Witness ==
    \E c \in Calls :
        /\ NeverCompleted(c)
        /\ Output(c).status = "timeout"
        /\ Output(c).poll_count = PollsExpected(c) + 1
        /\ PollsExpected(c) >= 6

\* ------------------------------------------------------------------ C2
\* The wait's k-th fetch was the last and its snapshot has done = true, with k * p < t.
CompletedOnKth(c, k) ==
    /\ WaitAnswered(c)
    /\ fetchCount[c] = k
    /\ SnapshotDone(Get(operation[c]))
    /\ k * args[c].poll_interval_seconds < args[c].timeout_seconds

\* C2 as stated: when the k-th fetch is the first with done = true and
\* k * p < t, the wait returns a completed outcome with poll_count = k.
C2_DoneOnKthIsCompleted ==
    \A c \in Calls : \A k \in 1..(MaxPolls + 2) :
        CompletedOnKth(c, k) =>
            /\ HasOutput(c)
            /\ Output(c).status = "completed"
            /\ Output(c).poll_count = k

\* C2 as amended: when the k-th fetch is the first with done = true and
\* k * p < t, the wait returns with poll_count = k, and the outcome is completed
\* when that snapshot carries no error and failed when it carries one.
C2_DoneOnKthCountsK ==
    \A c \in Calls : \A k \in 1..(MaxPolls + 2) :
        CompletedOnKth(c, k) =>
            /\ HasOutput(c)
            /\ Output(c).status =
                   IF SnapshotError(Get(operation[c])) THEN "failed" ELSE "completed"
            /\ Output(c).poll_count = k

\* A wait completed on its third fetch.
C2_Witness ==
    \E c \in Calls :
        /\ CompletedOnKth(c, 3)
        /\ ~SnapshotError(Get(operation[c]))
        /\ Output(c).status = "completed"

\* ------------------------------------------------------------------ C3
\* C3: a terminal snapshot fetched by a wait is returned as the terminal
\* outcome (failed with an error, completed without), with the elapsed time and
\* the poll count, and never as a timeout, whatever the elapsed time.
C3_TerminalSnapshotReturned ==
    \A c \in Calls :
        (IsWait(c) /\ IsPresent(operation[c]) /\ SnapshotTerminal(Get(operation[c]))
            /\ fetchFailed[c] = 0) =>
            /\ HasOutput(c)
            /\ ~Get(result[c]).isError
            /\ Output(c).status =
                   IF SnapshotError(Get(operation[c])) THEN "failed" ELSE "completed"
            /\ Output(c).operation_name = Get(operation[c]).name
            /\ Output(c).error = Get(operation[c]).error
            /\ Output(c).elapsed_seconds = RoundSeconds(WallElapsed(c))
            /\ Output(c).poll_count = fetchCount[c]

\* A terminal snapshot fetched at or after the deadline.
C3_Witness ==
    \E c \in Calls :
        /\ WaitAnswered(c)
        /\ SnapshotTerminal(Get(operation[c]))
        /\ WallElapsed(c) >= args[c].timeout_seconds * 1000
        /\ Output(c).status = "completed"

\* ------------------------------------------------------------------ C4
\* C4: the timeout outcome is returned only after a non-terminal snapshot
\* with elapsed >= timeout; it has status 'timeout', is not an error result and
\* carries the elapsed time and the poll count.
C4_TimeoutOnlyPastDeadline ==
    \A c \in Calls :
        (IsWait(c) /\ HasOutput(c) /\ Output(c).status = "timeout") =>
            /\ IsPresent(operation[c])
            /\ ~SnapshotTerminal(Get(operation[c]))
            /\ WallElapsed(c) >= args[c].timeout_seconds * 1000
            /\ ~Get(result[c]).isError
            /\ Text(c).format # "error"
            /\ Output(c).done = FALSE
            /\ Output(c).elapsed_seconds = RoundSeconds(WallElapsed(c))
            /\ Output(c).poll_count = fetchCount[c]

\* A timeout outcome returned in the markdown format.
C4_Witness ==
    \E c \in Calls :
        /\ IsWait(c) /\ HasOutput(c)
        /\ Output(c).status = "timeout"
        /\ Text(c).format = "markdown"

\* ------------------------------------------------------------------ C5
\* C5: a status fetch of a wait that fails ends the wait in the same step with
\* a failure outcome, and a wait that has seen a fetch fail issues no further
\* fetch and starts no further sleep.
C5_FetchFailureEndsWait ==
    [][\A c \in Calls :
          IsWait(c) =>
             /\ fetchFailed'[c] > fetchFailed[c] =>
                   /\ pc'[c] = "returned"
                   /\ Get(result'[c]).isError
                   /\ Get(result'[c]).structuredContent = Absent
                   /\ endTime'[c] = now'
                   /\ fetchCount'[c] = fetchCount[c]
                   /\ inFlight'[c] = 0
             /\ fetchFailed[c] > 0 =>
                   /\ pc[c] = "returned" /\ pc'[c] = "returned"
                   /\ fetchCount'[c] = fetchCount[c]
                   /\ fetchFailed'[c] = fetchFailed[c]
                   /\ result'[c] = result[c]]_vars

\* A wait whose third fetch failed after two that answered.
C5_Witness ==
    \E c \in Calls :
        /\ IsWait(c) /\ Returned(c)
        /\ fetchFailed[c] = 1 /\ fetchCount[c] = 3
        /\ Get(result[c]).isError

\* ------------------------------------------------------------------ C6
\* C6: a wait issues a status fetch only when none of its fetches is in
\* flight, and every fetch after the first at least one poll interval after
\* the previous one was issued.
C6_FetchesSequentialAndSpaced ==
    [][\A c \in Calls :
          (IsWait(c) /\ fetchCount'[c] # fetchCount[c]) =>
             /\ fetchCount'[c] = fetchCount[c] + 1
             /\ inFlight[c] = 0 /\ inFlight'[c] = 1
             /\ fetchStart'[c] = now'
             /\ fetchCount[c] >= 1 =>
                   /\ pc[c] = "sleeping"
                   /\ fetchStart'[c] >= fetchStart[c] + args[c].poll_interval_seconds * 1000]_vars

\* A wait whose second fetch is in flight.
C6_Witness ==
    \E c \in Calls :
        /\ IsWait(c) /\ pc[c] = "fetching"
        /\ fetchCount[c] = 2 /\ inFlight[c] = 1
        /\ fetchStart[c] >= startTime[c] + args[c].poll_interval_seconds * 1000

\* ------------------------------------------------------------------ C7
\* The lookup key the specification prescribes for a name.
LookupKey(name) ==
    IF \E i \in DOMAIN name : name[i] = "/"
    THEN name
    ELSE <<"o", "p", "e", "r", "a", "t", "i", "o", "n", "s", "/">> \o name

\* C7: both handlers fetch under the prescribed key (the name verbatim when it
\* contains '/', 'operations/' followed by the name otherwise), which is then the
\* same for both, and every fetch of a wait uses it.
C7_SameLookupKey ==
    \A c \in Calls :
        fetchCount[c] >= 1 =>
            /\ fetchKey[c] = LookupKey(args[c].operation_name)
            /\ operationPath[c] = fetchKey[c]
            /\ StatusOperationPath(args[c].operation_name) = fetchKey[c]
            /\ WaitOperationPath(args[c].operation_name) = fetchKey[c]

\* The second fetch of a wait on a name that contains a separator.
C7_Witness ==
    \E c \in Calls :
        /\ IsWait(c) /\ fetchCount[c] = 2
        /\ args[c].operation_name = <<"a", "/", "a">>
        /\ fetchKey[c] = <<"a", "/", "a">>

\* ------------------------------------------------------------------ C8
\* C8: the key a handler computed normalizes to itself; a name that contains
\* a separator is its own key, and a bare name has the key 'operations/' + name.
C8_NormalizationIdempotent ==
    \A c \in Calls :
        (pc[c] # "idle" /\ ValidInput(args[c])) =>
            /\ StatusOperationPath(operationPath[c]) = operationPath[c]
            /\ WaitOperationPath(operationPath[c]) = operationPath[c]
            /\ Includes(args[c].operation_name, "/") =>
                   operationPath[c] = args[c].operation_name
            /\ ~Includes(args[c].operation_name, "/") =>
                   /\ Len(operationPath[c]) = Len(args[c].operation_name) + 11
                   /\ SubSeq(operationPath[c], 12, Len(operationPath[c]))
                          = args[c].operation_name
                   /\ operationPath[c] # args[c].operation_name

\* A handler that qualified a bare name.
C8_Witness ==
    \E c \in Calls :
        /\ pc[c] = "fetching"
        /\ args[c].operation_name = <<"a", "a">>
        /\ Len(operationPath[c]) = 13

\* ------------------------------------------------------------------ C9
Classes == {"in_progress", "completed", "failed"}

\* C9: the status of a fetched snapshot is one of in_progress, completed and
\* failed: failed whenever it carries an error, completed when done = true
\* without an error, in_progress when it has neither a done flag nor an error;
\* the text rendering names the same class.
C9_ClassificationPartitions ==
    \A c \in Calls :
        (IsStatus(c) /\ HasOutput(c)) =>
            LET op == Get(operation[c])
            IN  /\ Output(c).status \in Classes
                /\ Text(c).status = Output(c).status
                /\ SnapshotError(op) => Output(c).status = "failed"
                /\ (SnapshotDone(op) /\ ~SnapshotError(op)) => Output(c).status = "completed"
                /\ (op.done = Absent /\ ~SnapshotError(op)) => Output(c).status = "in_progress"
                /\ Output(c).status = "completed" => SnapshotDone(op)
                /\ Output(c).status = "failed" => SnapshotError(op)

\* A snapshot with done = true and an error, classified failed.
C9_Witness ==
    \E c \in Calls :
        /\ IsStatus(c) /\ HasOutput(c)
        /\ SnapshotDone(Get(operation[c])) /\ SnapshotError(Get(operation[c]))
        /\ Output(c).status = "failed"

\* ----------------------------------------------------------------- C10
\* The artifact list a snapshot stands for.
Artifacts(op) == IF op.samples = Absent THEN <<>> ELSE op.samples[1]

\* C10: video_urls of a status outcome and of a terminal wait outcome is never
\* absent: it lists the snapshot's sample URIs in order, and is empty when the
\* snapshot has none.
C10_VideoUrlsAlwaysList ==
    \A c \in Calls :
        (HasOutput(c) /\ Output(c).status \in Classes) =>
            /\ Output(c).video_urls # Absent
            /\ Output(c).video_urls[1] = Artifacts(Get(operation[c]))
            /\ Text(c).format = "json" =>
                   /\ Text(c).video_urls # Absent
                   /\ Text(c).video_urls[1] = Artifacts(Get(operation[c]))

\* A status outcome for a snapshot that carries only an error.
C10_Witness ==
    \E c \in Calls :
        /\ IsStatus(c) /\ HasOutput(c)
        /\ Get(operation[c]).done = Absent
        /\ Get(operation[c]).samples = Absent
        /\ SnapshotError(Get(operation[c]))
        /\ Output(c).status = "failed"
        /\ Output(c).video_urls = <<<<>>>>

\* ----------------------------------------------------------------- C11
\* What the wait schema accepts, stated from the documented ranges.
WaitInputInRange(a) ==
    /\ a.operation_name # <<>>
    /\ a.poll_interval_seconds \in 5..60
    /\ a.timeout_seconds \in 30..600

\* C11: a wait whose poll interval is outside [5,60], whose timeout is outside
\* [30,600] or whose name is empty never issues a request and returns a
\* validation error; a wait that polls has both numbers in range.
C11_OutOfRangeRejectedBeforeFetch ==
    \A c \in Calls :
        IsWait(c) =>
            /\ ~WaitInputInRange(args[c]) =>
                   /\ pc[c] \in {"idle", "returned"}
                   /\ fetchCount[c] = 0 /\ inFlight[c] = 0 /\ pollCount[c] = 0
                   /\ Returned(c) =>
                          /\ Get(result[c]).isError
                          /\ Get(result[c]).structuredContent = Absent
                          /\ Text(c).message = "Input validation error"
            /\ (pc[c] \in {"fetching", "sleeping"} \/ fetchCount[c] >= 1) =>
                   WaitInputInRange(args[c])

\* A wait with poll interval 61 rejected.
C11_Witness ==
    \E c \in Calls :
        /\ IsWait(c) /\ Returned(c)
        /\ args[c].poll_interval_seconds = 61
        /\ args[c].timeout_seconds = 30
        /\ Get(result[c]).isError /\ fetchCount[c] = 0

\* ----------------------------------------------------------------- C15
IsScenario(c, poll, timeout) ==
    /\ IsWait(c)
    /\ args[c].operation_name # <<>>
    /\ args[c].poll_interval_seconds = poll
    /\ args[c].timeout_seconds = timeout

\* C15 as stated: a wait with poll interval 10 and timeout 15 whose fetches
\* always answer done = false returns the timeout outcome with poll_count 1 or 2
\* and elapsed >= 15.
C15_Poll10Timeout15TimesOut ==
    \A c \in Calls :
        (IsScenario(c, 10, 15) /\ Returned(c) /\ fetchFailed[c] = 0) =>
            /\ HasOutput(c)
            /\ Output(c).status = "timeout"
            /\ Output(c).poll_count \in {1, 2}
            /\ Output(c).elapsed_seconds >= 15

\* C15 as amended: a wait with poll interval 10 and timeout 15 is rejected by
\* the input schema before any fetch (the smallest timeout is 30); with poll
\* interval 10 and timeout 30 a wait whose fetches always answer done = false
\* returns the timeout outcome with poll_count from 1 to 4 and elapsed >= 30.
C15_Poll10Timeout15Rejected ==
    \A c \in Calls :
        /\ IsScenario(c, 10, 15) =>
              /\ pc[c] \in {"idle", "returned"}
              /\ fetchCount[c] = 0
              /\ Returned(c) =>
                     /\ Get(result[c]).isError
                     /\ Text(c).message = "Input validation error"
        /\ (IsScenario(c, 10, 30) /\ WaitAnswered(c)
               /\ ~SnapshotTerminal(Get(operation[c]))) =>
              /\ Output(c).status = "timeout"
              /\ Output(c).poll_count \in 1..4
              /\ Output(c).elapsed_seconds >= 30
              /\ WallElapsed(c) >= 30 * 1000

\* The scenario with timeout 30 timed out after four polls.
C15_Witness ==
    \E c \in Calls :
        /\ IsScenario(c, 10, 30) /\ WaitAnswered(c)
        /\ Get(operation[c]).done = Some(FALSE)
        /\ Output(c).status = "timeout"
        /\ Output(c).poll_count = 4

\* ----------------------------------------------------------------- C17
\* C17: a wait starts a sleep only in the step in which a fetch answered with
\* a non-terminal snapshot and elapsed < timeout, and the step that ends a sleep
\* issues a fetch: it never returns the timeout outcome.
C17_DeadlineCheckedBeforeSleep ==
    [][\A c \in Calls :
          IsWait(c) =>
             /\ (pc'[c] = "sleeping" /\ pc[c] # "sleeping") =>
                   /\ pc[c] = "fetching"
                   /\ sleepStart'[c] = now'
                   /\ now' - startTime[c] < args[c].timeout_seconds * 1000
                   /\ ~SnapshotTerminal(Get(operation'[c]))
             /\ (pc[c] = "sleeping" /\ pc'[c] # "sleeping") =>
                   /\ pc'[c] = "fetching"
                   /\ fetchCount'[c] = fetchCount[c] + 1
                   /\ result'[c] = Absent]_vars

\* A wait asleep one fetch latency short of its deadline.
C17_Witness ==
    \E c \in Calls :
        /\ IsWait(c) /\ pc[c] = "sleeping"
        /\ fetchCount[c] >= 2
        /\ sleepStart[c] - startTime[c] = args[c].timeout_seconds * 1000 - TickMs

\* ----------------------------------------------------------------- C18
\* C18: for a terminal snapshot returned by wait in the JSON format, the text
\* content and the structured outcome agree on status, done, error and
\* video_urls.
C18_TextAgreesWithStructured ==
    \A c \in Calls :
        (IsWait(c) /\ HasOutput(c) /\ Output(c).status \in {"completed", "failed"}
            /\ Text(c).format = "json") =>
            /\ Text(c).status = Output(c).status
            /\ Text(c).done = Output(c).done
            /\ Text(c).error = Output(c).error
            /\ Text(c).video_urls = Output(c).video_urls

\* ----------------------------------------------------------------- C19
\* The four ways a wait ends.
WaitEnding(c) ==
    IF ~Returned(c) THEN "running"
    ELSE IF ~Get(result[c]).isError THEN Output(c).status
    ELSE "transport failure"

\* C19: under the runtime's scheduling every wait the schema accepts returns,
\* as completed, failed, timeout or a transport failure.
C19_WaitTerminates ==
    \A c \in Calls :
        (IsWait(c) /\ WaitInputInRange(args[c])) ~>
            (Returned(c)
                /\ WaitEnding(c) \in {"completed", "failed", "timeout", "transport failure"})

\* A wait on an operation that never completes, returned after four polls.
C19_Witness ==
    \E c \in Calls :
        /\ NeverCompleted(c)
        /\ WaitEnding(c) = "timeout"
        /\ fetchCount[c] >= 4

\* ----------------------------------------------------------------- C12
\* The model a submit request is addressed to.
SubmittedModel(c) == ModelEntry(Get(submitted[c]).endpoint[2])

\* C12: every submit request sent to the remote service carries a duration
\* the selected model lists, and a resolution only if the model supports one.
C12_SubmittedCombinationSupported ==
    \A c \in Calls :
        IsPresent(submitted[c]) =>
            LET parameters == Get(submitted[c]).parameters
                model == SubmittedModel(c)
            IN  /\ Includes(model.durations, parameters.durationSeconds)
                /\ IsPresent(parameters.resolution) =>
                       /\ model.supportsResolution
                       /\ Includes(model.resolutions, Get(parameters.resolution))

\* ----------------------------------------------------------------- C13
\* The messages of handleApiError and of the schema check.
ErrorMessages ==
    {"Error: Invalid request", "Error: Invalid API key", "Error: Access denied",
     "Error: Resource not found", "Error: Rate limit exceeded", "Error: Server error",
     "Error: API request failed with status", "Error: Request timed out",
     "Error: Network error", "Error: Unexpected error occurred",
     "Input validation error"}

\* A result object: an error with a message, or a text with a structured outcome.
IsResultObject(r) ==
    IF r.isError
    THEN r.content.message \in ErrorMessages /\ r.structuredContent = Absent
    ELSE IsPresent(r.structuredContent)

NeedsRemote(c) ==
    args[c].tool \in GenerateTools \cup {"veo_get_operation_status", "veo_wait_for_video"}

\* C13: every step of a handler of any of the five tools either suspends it at
\* a request or a sleep, or returns a result object; a failed request and a key
\* missing at call time return an error result; no step ends a handler
\* otherwise, and no step of a handler ends the process.
C13_EveryInvocationReturnsResult ==
    [][\A c \in Calls :
          pc'[c] # pc[c] =>
             /\ pc'[c] \in {"fetching", "sleeping", "submitting", "returned"}
             /\ server = "running" /\ server' = "running" /\ exitCode' = Absent
             /\ pc'[c] = "returned" =>
                   /\ IsPresent(result'[c])
                   /\ IsResultObject(Get(result'[c]))
             /\ pc'[c] # "returned" => result'[c] = Absent
             /\ fetchFailed'[c] > fetchFailed[c] =>
                   /\ pc'[c] = "returned"
                   /\ Get(result'[c]).isError
             /\ (~apiKey /\ NeedsRemote(c) /\ pc[c] \in {"idle", "sleeping"}) =>
                   /\ pc'[c] = "returned"
                   /\ Get(result'[c]).isError
                   /\ submitted'[c] = submitted[c]
                   /\ fetchCount'[c] = fetchCount[c]]_vars

\* A generation call made after the key was removed, returned as an error.
C13_Witness ==
    \E c \in Calls :
        /\ args[c].tool \in GenerateTools
        /\ server = "running" /\ ~apiKey
        /\ Returned(c)
        /\ Get(result[c]).isError
        /\ Text(c).message = "Error: Unexpected error occurred"
        /\ submitted[c] = Absent

\* ----------------------------------------------------------------- C16
\* C16: the process leaves startup in one step: to exited with code 1 if the
\* key is absent, with no invocation ever served, and to running if it is
\* present; handlers run only while it is running, and once running it
\* never exits.
C16_MissingKeyFatalAtStartupOnly ==
    [][/\ server = "starting" =>
            /\ \A c \in Calls : pc[c] = "idle" /\ pc'[c] = "idle" /\ result'[c] = Absent
            /\ server' = IF apiKey THEN "running" ELSE "exited"
            /\ exitCode' = IF apiKey THEN Absent ELSE Some(1)
       /\ server = "running" => server' = "running" /\ exitCode' = Absent
       /\ server = "exited" => FALSE]_vars

\* The process exited with code 1 at startup, the client's invocation unserved.
C16_Witness ==
    /\ server = "exited"
    /\ exitCode = Some(1)
    /\ ~apiKey
    /\ \E c \in Calls : args[c] # NoRequest /\ pc[c] = "idle" /\ result[c] = Absent

\* ----------------------------------------------------------------- C14
\* The state a handler keeps for one call.
Session(c) ==
    <<pc[c], operationPath[c], startTime[c], pollCount[c], operation[c], result[c],
      fetchCount[c], sleepStart[c], endTime[c]>>

\* C14: a step of one wait the schema accepts leaves every other call's session as it was; the
\* call's poll count is the number of fetches it issued itself, its start time
\* is the moment it was invoked, and the poll_count and the elapsed time it
\* reports, and its deadline, are taken from its own count and start time.
C14_ConcurrentWaitsIndependent ==
    [][\A c \in Calls :
          (IsWait(c) /\ WaitInputInRange(args[c]) /\ pc'[c] # pc[c]) =>
             /\ \A d \in Calls \ {c} : Session(d)' = Session(d)
             /\ pollCount'[c] = fetchCount'[c]
             /\ startTime'[c] = IF pc[c] = "idle" THEN now ELSE startTime[c]
             /\ (HasOutput(c))' =>
                   /\ Output(c)'.poll_count = fetchCount'[c]
                   /\ Output(c)'.elapsed_seconds = RoundSeconds(now' - startTime[c])
                   /\ Output(c)'.status = "timeout" <=>
                         /\ ~SnapshotTerminal(Get(operation'[c]))
                         /\ now' - startTime[c] >= args[c].timeout_seconds * 1000]_vars

\* Two waits on the same operation, started at different times, returned with
\* different poll counts.
C14_Witness ==
    /\ IsWait("c1") /\ IsWait("c2")
    /\ args["c1"].operation_name = args["c2"].operation_name
    /\ HasOutput("c1") /\ HasOutput("c2")
    /\ startTime["c1"] # startTime["c2"]
    /\ Output("c1").poll_count = 1
    /\ Output("c2").poll_count = 2
    /\ sleepStart["c2"] < endTime["c1"]

====
